---------------------------- MODULE Spec2Model ----------------------------
(***************************************************************************)
(* Rate limiters of limiter-study (src/storage.py, src/app.py): the        *)
(* stores LocalTokenBucket, LocalLeakyBucket, LocalSlidingLog,             *)
(* LocalFixedWindowCounter, RedisFixedWindowCounter and                    *)
(* LocalSlidingWindowCounter, and the decorator each one returns.          *)
(*                                                                         *)
(* Time is an integer number of ticks of 100 ms, counted from an instant   *)
(* that is a multiple of every period used (midnight), so that             *)
(* floor_dt(dt, delta), which floors from datetime.min, is dt - dt % delta.*)
(* Token and level amounts are exact rationals held as integers in units   *)
(* of 1/period of a token (Unit ticks of refill make R tokens).            *)
(*                                                                         *)
(* Threads are the clients c1 and c2. A method of the bucket stores holds  *)
(* the store's lock for its whole body and is one step; the wrapper's      *)
(* refill and consume (leak and pour) are two steps. The consume of the    *)
(* sliding log and of the two window counters is two steps inside its      *)
(* `with self.lock:` block, the reads and the decision, then the writes    *)
(* and the return, with the lock held in between. The Redis store sends    *)
(* each command as a step of its own, and a command may raise              *)
(* ConnectionError.                                                        *)
(***************************************************************************)
EXTENDS Integers, Sequences, FiniteSets, TLC

\* Ticks in timedelta(seconds=1).
Second == 10

\* Bounds of the generic configurations: requests issued, seconds of clock.
MaxCalls == 5
MaxTime == 5

VARIABLES
    cfg,        \* the limiter under study and its decorator arguments
    now,        \* the clock: time.monotonic() / datetime.now()
    calls,      \* requests started so far
    pc,         \* per client: where its wrapper call stands
    local,      \* per client: the locals of its call in flight
    buckets,    \* LocalTokenBucket.buckets : key -> [tokens, last_refill]
    lbuckets,   \* LocalLeakyBucket.buckets : key -> [level, last_leak]
    logs,       \* LocalSlidingLog.logs     : key -> sequence of timestamps
    counter,    \* LocalFixedWindowCounter.counter : key -> [count, window]
    hash,       \* the Redis hash of RedisFixedWindowCounter : key -> field value
    counters,   \* LocalSlidingWindowCounter.counters : key -> (frame -> count)
    lock,       \* self.lock of the local store: the client inside `with self.lock`
    ret,        \* per client: its last store call, the key and the tuple returned
    resp,       \* per client: the Response its last wrapper call returned
    headers,    \* per client: the rate_headers of that Response
    raised,     \* per client: the exception its last wrapper call let through
    hist        \* per key: the clock reading and the decision of each request,
                \* in order of return (history variable)

vars == <<cfg, now, calls, pc, local, buckets, lbuckets, logs, counter, hash,
          counters, lock, ret, resp, headers, raised, hist>>

stores == <<buckets, lbuckets, logs, counter, hash, counters, lock>>

Clients == {"c1", "c2"}
Keys == {"a", "b"}

None == "None"

Min(a, b) == IF a < b THEN a ELSE b
Max(a, b) == IF a > b THEN a ELSE b

\* Mutant: the value is stored under every key of the dict.
Put_every(d, key, value) == [k \in (DOMAIN d) \cup {key} |-> value]

\* dict[key] = value, on a dict held as a function over its keys
Put(d, key, value) == [k \in (DOMAIN d) \cup {key} |-> IF k = key THEN value ELSE d[k]]

--------------------------------------------------------------------------
(* storage.py, module level *)

\* Mutant: the time is floored to the minute, whatever delta is.
floor_dt_minute(dt, delta) == dt - (dt % (60 * Second))

floor_dt(dt, delta) == dt - (dt % delta)

RequestRate(requests, period) == [requests |-> requests, period |-> period]

\* Tokens are counted in units of 1/Unit: one token is rate.period units.
Unit(rate) == rate.period

\* rate.per_second * elapsed, in units: (R / D) * elapsed * D
per_second_times(rate, elapsed) == rate.requests * elapsed

--------------------------------------------------------------------------
(* LocalTokenBucket *)

\* Mutant: an earlier clock reading is not looked for.
LocalTokenBucket_refill_unguarded(b, key, refill_rate, token_capacity, t) ==
    IF key \in DOMAIN b
    THEN LET current_tokens == b[key].tokens
             last_refill == b[key].last_refill
             additional_tokens == per_second_times(refill_rate, t - last_refill)
         IN  Put(b, key,
                 [tokens |-> Min(token_capacity, current_tokens + additional_tokens),
                  last_refill |-> t])
    ELSE Put(b, key, [tokens |-> token_capacity, last_refill |-> t])

\* Mutant: the refill is not held at the capacity.
LocalTokenBucket_refill_uncapped(b, key, refill_rate, token_capacity, t) ==
    IF key \in DOMAIN b
    THEN LET current_tokens == b[key].tokens
             last_refill == b[key].last_refill
         IN  IF t < last_refill
             THEN b
             ELSE LET additional_tokens == per_second_times(refill_rate, t - last_refill)
                  IN  Put(b, key,
                          [tokens |-> current_tokens + additional_tokens,
                           last_refill |-> t])
    ELSE Put(b, key, [tokens |-> token_capacity, last_refill |-> t])

\* token_capacity and token_cost are given in units, as the stored tokens are.
LocalTokenBucket_refill(b, key, refill_rate, token_capacity, t) ==
    IF key \in DOMAIN b
    THEN LET current_tokens == b[key].tokens
             last_refill == b[key].last_refill
         IN  IF t < last_refill
             THEN b
             ELSE LET additional_tokens == per_second_times(refill_rate, t - last_refill)
                  IN  Put(b, key,
                          [tokens |-> Min(token_capacity,
                                          current_tokens + additional_tokens),
                           last_refill |-> t])
    ELSE Put(b, key, [tokens |-> token_capacity, last_refill |-> t])

\* Mutant: a bucket holding exactly the cost is refused.
LocalTokenBucket_consume_strict(b, key, token_cost) ==
    LET current_tokens == b[key].tokens
        last_refill == b[key].last_refill
    IN  IF current_tokens <= token_cost
        THEN [store |-> b, ret |-> <<FALSE, current_tokens, last_refill>>]
        ELSE [store |-> [b EXCEPT ![key].tokens = @ - token_cost],
              ret |-> <<TRUE, current_tokens - token_cost, last_refill>>]

\* Mutant: the cost is deducted without looking at the tokens held.
LocalTokenBucket_consume_unchecked(b, key, token_cost) ==
    LET current_tokens == b[key].tokens
        last_refill == b[key].last_refill
    IN  [store |-> [b EXCEPT ![key].tokens = @ - token_cost],
         ret |-> <<TRUE, current_tokens - token_cost, last_refill>>]

LocalTokenBucket_consume(b, key, token_cost) ==
    LET current_tokens == b[key].tokens
        last_refill == b[key].last_refill
    IN  IF current_tokens < token_cost
        THEN [store |-> b, ret |-> <<FALSE, current_tokens, last_refill>>]
        ELSE [store |-> [b EXCEPT ![key].tokens = @ - token_cost],
              ret |-> <<TRUE, current_tokens - token_cost, last_refill>>]

--------------------------------------------------------------------------
(* LocalLeakyBucket; the level is held in the field tokens, in units *)

LocalLeakyBucket_pour(b, key, token_capacity, token_cost) ==
    LET current_tokens == b[key].tokens
        last_leak == b[key].last_leak
    IN  IF current_tokens + token_cost > token_capacity
        THEN [store |-> b, ret |-> <<FALSE, current_tokens, last_leak>>]
        ELSE [store |-> [b EXCEPT ![key].tokens = @ + token_cost],
              ret |-> <<TRUE, current_tokens + token_cost, last_leak>>]

\* Mutant: the level is not held at 0 from below.
LocalLeakyBucket_leak_unclamped(b, key, leak_rate, t) ==
    IF key \in DOMAIN b
    THEN LET current_tokens == b[key].tokens
             last_leak == b[key].last_leak
         IN  IF t < last_leak
             THEN b
             ELSE LET reduction == per_second_times(leak_rate, t - last_leak)
                  IN  Put(b, key, [tokens |-> current_tokens - reduction,
                                   last_leak |-> t])
    ELSE Put(b, key, [tokens |-> 0, last_leak |-> t])

LocalLeakyBucket_leak(b, key, leak_rate, t) ==
    IF key \in DOMAIN b
    THEN LET current_tokens == b[key].tokens
             last_leak == b[key].last_leak
         IN  IF t < last_leak
             THEN b
             ELSE LET reduction == per_second_times(leak_rate, t - last_leak)
                  IN  Put(b, key, [tokens |-> Max(0, current_tokens - reduction),
                                   last_leak |-> t])
    ELSE Put(b, key, [tokens |-> 0, last_leak |-> t])

--------------------------------------------------------------------------
(* LocalSlidingLog *)

\* Mutant: the timestamp of a refused request is not kept in the log.
LocalSlidingLog_consume_admitted_only(l, key, rate, t) ==
    LET lower_bound == t - rate.period
    IN  IF key \in DOMAIN l
        THEN LET appended == Append(l[key], t)
                 log == SelectSeq(appended, LAMBDA ts : ts > lower_bound)
                 size == Len(log)
             IN  [store |-> IF size > rate.requests THEN l ELSE [l EXCEPT ![key] = appended],
                  ret |-> <<~(size > rate.requests), rate.requests - size,
                            log[Len(log)] + rate.period>>]
        ELSE [store |-> Put(l, key, <<t>>),
              ret |-> <<TRUE, rate.requests - 1, t + rate.period>>]

\* Mutant: the filter keeps the timestamps >= lower_bound.
LocalSlidingLog_consume_closed(l, key, rate, t) ==
    LET lower_bound == t - rate.period
    IN  IF key \in DOMAIN l
        THEN LET appended == Append(l[key], t)
                 log == SelectSeq(appended, LAMBDA ts : ts >= lower_bound)
                 size == Len(log)
             IN  [store |-> [l EXCEPT ![key] = appended],
                  ret |-> <<~(size > rate.requests), rate.requests - size,
                            log[Len(log)] + rate.period>>]
        ELSE [store |-> Put(l, key, <<t>>),
              ret |-> <<TRUE, rate.requests - 1, t + rate.period>>]

\* log.append(now) changes the stored list; the filtered list is a local of
\* the call and is never stored back.
LocalSlidingLog_consume(l, key, rate, t) ==
    LET lower_bound == t - rate.period
    IN  IF key \in DOMAIN l
        THEN LET appended == Append(l[key], t)
                 log == SelectSeq(appended, LAMBDA ts : ts > lower_bound)
                 size == Len(log)
             IN  [store |-> [l EXCEPT ![key] = appended],
                  ret |-> <<~(size > rate.requests), rate.requests - size,
                            log[Len(log)] + rate.period>>]
        ELSE [store |-> Put(l, key, <<t>>),
              ret |-> <<TRUE, rate.requests - 1, t + rate.period>>]

--------------------------------------------------------------------------
(* LocalFixedWindowCounter *)

\* Mutant: the stored window is taken as stale when it is the latest one.
LocalFixedWindowCounter_consume_stale_le(c, key, rate, t) ==
    LET latest_window == floor_dt(t, rate.period)
    IN  IF key \in DOMAIN c
        THEN LET count == c[key].count
                 active_window == c[key].window
             IN  IF active_window <= latest_window
                 THEN [store |-> Put(c, key, [count |-> 0, window |-> latest_window]),
                       ret |-> <<TRUE, rate.requests, latest_window + rate.period>>]
                 ELSE IF count + 1 < rate.requests
                 THEN [store |-> [c EXCEPT ![key].count = @ + 1],
                       ret |-> <<TRUE, rate.requests - count - 1,
                                 active_window + rate.period>>]
                 ELSE [store |-> c,
                       ret |-> <<FALSE, 0, active_window + rate.period>>]
        ELSE [store |-> Put(c, key, [count |-> 0, window |-> latest_window]),
              ret |-> <<TRUE, rate.requests, latest_window + rate.period>>]

\* Mutant: a new window starts with the count at 1.
LocalFixedWindowCounter_consume_from_one(c, key, rate, t) ==
    LET latest_window == floor_dt(t, rate.period)
    IN  IF key \in DOMAIN c
        THEN LET count == c[key].count
                 active_window == c[key].window
             IN  IF active_window < latest_window
                 THEN [store |-> Put(c, key, [count |-> 1, window |-> latest_window]),
                       ret |-> <<TRUE, rate.requests, latest_window + rate.period>>]
                 ELSE IF count + 1 < rate.requests
                 THEN [store |-> [c EXCEPT ![key].count = @ + 1],
                       ret |-> <<TRUE, rate.requests - count - 1,
                                 active_window + rate.period>>]
                 ELSE [store |-> c,
                       ret |-> <<FALSE, 0, active_window + rate.period>>]
        ELSE [store |-> Put(c, key, [count |-> 1, window |-> latest_window]),
              ret |-> <<TRUE, rate.requests, latest_window + rate.period>>]

\* Mutant: the admission test is count + 1 <= R.
LocalFixedWindowCounter_consume_le(c, key, rate, t) ==
    LET latest_window == floor_dt(t, rate.period)
    IN  IF key \in DOMAIN c
        THEN LET count == c[key].count
                 active_window == c[key].window
             IN  IF active_window < latest_window
                 THEN [store |-> Put(c, key, [count |-> 0, window |-> latest_window]),
                       ret |-> <<TRUE, rate.requests, latest_window + rate.period>>]
                 ELSE IF count + 1 <= rate.requests
                 THEN [store |-> [c EXCEPT ![key].count = @ + 1],
                       ret |-> <<TRUE, rate.requests - count - 1,
                                 active_window + rate.period>>]
                 ELSE [store |-> c,
                       ret |-> <<FALSE, 0, active_window + rate.period>>]
        ELSE [store |-> Put(c, key, [count |-> 0, window |-> latest_window]),
              ret |-> <<TRUE, rate.requests, latest_window + rate.period>>]

LocalFixedWindowCounter_consume(c, key, rate, t) ==
    LET latest_window == floor_dt(t, rate.period)
    IN  IF key \in DOMAIN c
        THEN LET count == c[key].count
                 active_window == c[key].window
             IN  IF active_window < latest_window
                 THEN [store |-> Put(c, key, [count |-> 0, window |-> latest_window]),
                       ret |-> <<TRUE, rate.requests, latest_window + rate.period>>]
                 ELSE IF count + 1 < rate.requests
                 THEN [store |-> [c EXCEPT ![key].count = @ + 1],
                       ret |-> <<TRUE, rate.requests - count - 1,
                                 active_window + rate.period>>]
                 ELSE [store |-> c,
                       ret |-> <<FALSE, 0, active_window + rate.period>>]
        ELSE [store |-> Put(c, key, [count |-> 0, window |-> latest_window]),
              ret |-> <<TRUE, rate.requests, latest_window + rate.period>>]

--------------------------------------------------------------------------
(* RedisFixedWindowCounter *)

\* f"{count}##{window.timestamp()}": the count in base 10 and the window
\* start as epoch seconds with their fraction (here: in ticks).
hset_value(count, window) == [count |-> count, timestamp |-> window]

\* val.split('##'); int(count)
parse_count(val) == val.count

\* datetime.fromtimestamp(int(float(active_window))): int() drops the
\* fraction of the second.
parse_active_window(val) == (val.timestamp \div Second) * Second

\* Lines 353-359: what the call does with the value hget returned:
\* the value it will hset (<<>> for no write) and the tuple it will return.
RedisFixedWindowCounter_decide(val, latest_window, rate) ==
    LET count == parse_count(val)
        active_window == parse_active_window(val)
    IN  IF active_window < latest_window
        THEN [write |-> <<hset_value(0, latest_window)>>,
              ret |-> <<TRUE, rate.requests, latest_window + rate.period>>]
        ELSE IF count + 1 < rate.requests
        THEN [write |-> <<hset_value(count + 1, latest_window)>>,
              ret |-> <<TRUE, rate.requests - count - 1, active_window + rate.period>>]
        ELSE [write |-> <<>>,
              ret |-> <<FALSE, 0, active_window + rate.period>>]

\* Lines 360-362: the field does not exist.
RedisFixedWindowCounter_create(latest_window, rate) ==
    [write |-> <<hset_value(0, latest_window)>>,
     ret |-> <<TRUE, rate.requests, latest_window + rate.period>>]

--------------------------------------------------------------------------
(* LocalSlidingWindowCounter *)

\* datetime.second of a time in ticks
second_of(t) == (t \div Second) % 60

\* The (prior_sum, now.second, current_sum), sums up to 14, for which the
\* double prior_sum * (1 - (now.second / 60)) + current_sum falls just below
\* the integer that is its exact value, so that math.floor gives one less.
FloatShort ==
    { <<5, 48, 0>>, <<5, 48, 1>>, <<6, 50, 0>>, <<6, 50, 1>>,
      <<10, 48, 0>>, <<10, 48, 1>>, <<10, 48, 2>>, <<10, 54, 0>>, <<10, 54, 1>>,
      <<12, 25, 0>>, <<12, 25, 1>>, <<12, 50, 0>>, <<12, 50, 1>>, <<12, 50, 2>> }

\* math.floor(prior_sum * (1 - (now.second / 60)) + current_sum)
weighted_floor(prior_sum, second, current_sum) ==
    LET exact == ((prior_sum * (60 - second)) \div 60) + current_sum
    IN  IF <<prior_sum, second, current_sum>> \in FloatShort THEN exact - 1 ELSE exact

RECURSIVE SumOver(_, _)
SumOver(w, ks) ==
    IF ks = {} THEN 0
    ELSE LET k == CHOOSE x \in ks : TRUE IN w[k] + SumOver(w, ks \ {k})

\* Mutant: the sub-window of the request is incremented before the sums are
\* taken, so the request counts itself.
LocalSlidingWindowCounter_consume_counts_itself(c, key, rate, t) ==
    LET now_minute_floor == floor_dt(t, rate.period)
        rolling_lower_bound == t - rate.period
        frame == floor_dt(t, Second)
    IN  IF key \in DOMAIN c
        THEN LET windows == [k \in (DOMAIN c[key]) \cup {frame} |->
                                (IF k \in DOMAIN c[key] THEN c[key][k] ELSE 0)
                                + (IF k = frame THEN 1 ELSE 0)]
                 kept == {k \in DOMAIN windows : k > rolling_lower_bound}
                 prior_sum == SumOver(windows, {k \in kept : k < now_minute_floor})
                 current_sum == SumOver(windows, {k \in kept : ~(k < now_minute_floor)})
                 weighted_sum == weighted_floor(prior_sum, second_of(t), current_sum)
                 pruned_windows == [k \in kept \cup {frame} |-> windows[k]]
             IN  [store |-> [c EXCEPT ![key] = pruned_windows],
                  ret |-> <<weighted_sum < rate.requests,
                            rate.requests - weighted_sum, None>>]
        ELSE [store |-> Put(c, key, [k \in {frame} |-> 1]),
              ret |-> <<TRUE, rate.requests - 1, None>>]

LocalSlidingWindowCounter_consume(c, key, rate, t) ==
    LET now_minute_floor == floor_dt(t, rate.period)
        rolling_lower_bound == t - rate.period
        frame == floor_dt(t, Second)
    IN  IF key \in DOMAIN c
        THEN LET windows == c[key]
                 kept == {k \in DOMAIN windows : k > rolling_lower_bound}
                 prior_sum == SumOver(windows, {k \in kept : k < now_minute_floor})
                 current_sum == SumOver(windows, {k \in kept : ~(k < now_minute_floor)})
                 weighted_sum == weighted_floor(prior_sum, second_of(t), current_sum)
                 pruned_windows ==
                     [k \in kept \cup {frame} |->
                         (IF k \in kept THEN windows[k] ELSE 0)
                         + (IF k = frame THEN 1 ELSE 0)]
             IN  [store |-> [c EXCEPT ![key] = pruned_windows],
                  ret |-> <<weighted_sum < rate.requests,
                            rate.requests - weighted_sum, None>>]
        ELSE [store |-> Put(c, key, [k \in {frame} |-> 1]),
              ret |-> <<TRUE, rate.requests - 1, None>>]

--------------------------------------------------------------------------
(* The decorators: the wrapper of each __call__, and those of app.py,       *)
(* which are the same code over a backend argument.                        *)

\* hello_world(), the decorated handler
f == <<"Hello, World!">>

\* f"Rate Limit for {key} exceeded."
exceeded(key) == <<"Rate Limit for ", key, " exceeded.">>

\* Mutant: the handler is called before the decision is looked at.
wrapper_response_handler_first(allow, key) ==
    IF allow
    THEN [response |-> f, status |-> 200, handler_calls |-> 1]
    ELSE [response |-> exceeded(key), status |-> 429, handler_calls |-> 1]

\* if allow: ... else: ...; handler_calls counts the calls of f made.
wrapper_response(allow, key) ==
    IF allow
    THEN [response |-> f, status |-> 200, handler_calls |-> 1]
    ELSE [response |-> exceeded(key), status |-> 429, handler_calls |-> 0]

\* Mutant: the leaky bucket's remaining is taken as level minus capacity.
rate_headers_level_first(c, out) ==
    [remaining |->
        IF c.algo = "tb" THEN <<out[2], c.cost * Unit(c.rate)>>
        ELSE IF c.algo = "lb"
        THEN <<out[2] - c.capacity * Unit(c.rate), c.cost * Unit(c.rate)>>
        ELSE <<out[2], 1>>]

\* rate_headers["api-ratelimit-remaining"] of each wrapper, as the fraction
\* <<numerator, denominator>>; out is the tuple the store returned.
rate_headers(c, out) ==
    [remaining |->
        IF c.algo = "tb" THEN <<out[2], c.cost * Unit(c.rate)>>
        ELSE IF c.algo = "lb"
        THEN <<c.capacity * Unit(c.rate) - out[2], c.cost * Unit(c.rate)>>
        ELSE <<out[2], 1>>]

--------------------------------------------------------------------------
(* threading.Lock, as the holder of the lock (None when it is free) *)

\* Mutant: entering the block does not wait for the lock.
lock_free_unguarded(holder) == TRUE

\* `with self.lock:` is entered only when no thread holds the lock.
lock_free(holder) == holder = None

--------------------------------------------------------------------------
(* Configurations: one limiter, its arguments, the clock readings and the  *)
(* clients of a run.                                                       *)

Seconds(n) == {sec * Second : sec \in 0..n}

Config(algo, rate, capacity, cost, times, clients, keys, maxcalls) ==
    [algo |-> algo, rate |-> rate, capacity |-> capacity, cost |-> cost,
     times |-> times, clients |-> clients, keys |-> keys, maxcalls |-> maxcalls]

\* 6 requests per minute (spec scenarios 4 and 5)
SixPerMinute == RequestRate(6, 60 * Second)

\* Sliding log, requests at 00:00:59.900 and at 00:01:00.100
SWLPrecision == Config("sl", SixPerMinute, 6, 1, {599, 601}, {"c1"}, {"a"}, 10)

\* Sliding window counter, requests at 00:00:30 and at 00:01:30
SWCSmoothing == Config("swc", SixPerMinute, 6, 1, {300, 900}, {"c1"}, {"a"}, 13)

\* Sliding window counter with a period of 30 s, requests from 00:00:29 on
SWCHalfMinute ==
    Config("swc", RequestRate(1, 30 * Second), 6, 1, {290, 300, 450, 595}, {"c1"}, {"a"}, MaxCalls)

\* Redis fixed window with a period of 1.5 s, one client
RedisFractional ==
    Config("redis", RequestRate(2, 15), 6, 1, {15, 16, 17, 20, 30, 31}, {"c1"}, {"a"}, MaxCalls)

\* Token bucket of the spec's first scenario: C = 6, r = 0.1/s, c = 1, and
\* requests at 0 s and at 20 s
TokenBucketRoundTrip ==
    Config("tb", RequestRate(1, 10 * Second), 6, 1, {0, 20 * Second}, {"c1"}, {"a"}, 8)

\* Buckets read with a clock whose readings may go back
TokenBucketRegress ==
    Config("tb", RequestRate(2, 2 * Second), 2, 1, Seconds(2), {"c1"}, {"a"}, MaxCalls)
LeakyBucketRegress ==
    Config("lb", RequestRate(2, 2 * Second), 2, 1, Seconds(2), {"c1"}, {"a"}, MaxCalls)
ClockRegresses == {TokenBucketRegress, LeakyBucketRegress}

\* Two threads on one key; two keys on the buckets
Concurrent ==
    { Config(algo, RequestRate(2, 2 * Second), 2, 1, Seconds(2), Clients, {"a"}, MaxCalls)
      : algo \in {"tb", "fw", "sl", "swc"} }
TwoKeys ==
    { Config(algo, RequestRate(1, 2 * Second), 1, 1, Seconds(2), {"c1"}, Keys, MaxCalls)
      : algo \in {"tb", "lb", "fw", "sl", "swc", "redis"} }

\* One request per 2 s, asked for every second
OnePerPeriod ==
    { Config(algo, RequestRate(1, 2 * Second), 6, 1, Seconds(MaxTime), {"c1"}, {"a"}, MaxCalls)
      : algo \in {"sl", "swc"} }

\* Arguments with a request count or a capacity that is not positive
UncheckedConfigs ==
    { Config("fw", RequestRate(0, 2 * Second), 6, 1, Seconds(2), {"c1"}, {"a"}, MaxCalls),
      Config("sl", RequestRate(-1, 2 * Second), 6, 1, Seconds(2), {"c1"}, {"a"}, MaxCalls),
      Config("tb", RequestRate(1, 2 * Second), 0, 1, Seconds(2), {"c1"}, {"a"}, MaxCalls),
      Config("lb", RequestRate(1, 2 * Second), -1, 1, Seconds(2), {"c1"}, {"a"}, MaxCalls) }

Configs ==
    { Config("tb", RequestRate(1, 2 * Second), 2, 1, Seconds(MaxTime), {"c1"}, {"a"}, MaxCalls),
      Config("tb", RequestRate(3, 2 * Second), 3, 2, Seconds(MaxTime), {"c1"}, {"a"}, MaxCalls),
      Config("lb", RequestRate(1, 2 * Second), 2, 1, Seconds(MaxTime), {"c1"}, {"a"}, MaxCalls),
      Config("lb", RequestRate(3, 2 * Second), 3, 2, Seconds(MaxTime), {"c1"}, {"a"}, MaxCalls),
      Config("sl", RequestRate(2, 2 * Second), 6, 1, Seconds(MaxTime), {"c1"}, {"a"}, MaxCalls),
      Config("swc", RequestRate(2, 2 * Second), 6, 1, Seconds(MaxTime), {"c1"}, {"a"}, MaxCalls),
      Config("redis", RequestRate(2, 2 * Second), 6, 1, Seconds(MaxTime), {"c1"}, {"a"}, MaxCalls),
      Config("redis", RequestRate(2, 2 * Second), 6, 1, Seconds(2), Clients, {"a"}, MaxCalls),
      SWLPrecision, SWCSmoothing, SWCHalfMinute, RedisFractional,
      TokenBucketRoundTrip, TokenBucketRegress, LeakyBucketRegress }
    \cup Concurrent \cup TwoKeys \cup OnePerPeriod
    \cup { Config("fw", RequestRate(r, 2 * Second), 6, 1, Seconds(MaxTime), {"c1"}, {"a"}, MaxCalls)
           : r \in 1..3 }

\* One token, in units
R == cfg.rate.requests
D == cfg.rate.period
token_capacity == cfg.capacity * Unit(cfg.rate)
token_cost == cfg.cost * Unit(cfg.rate)

--------------------------------------------------------------------------
(* State *)

Idle == [key |-> None, t |-> 0, write |-> <<>>, ret |-> <<>>]
NoReturn == [key |-> None, out |-> <<>>]
NoResponse == [response |-> <<>>, status |-> 0, handler_calls |-> 0]
NoHeaders == [remaining |-> <<>>]

MinOf(S) == CHOOSE x \in S : \A y \in S : x <= y

\* The state after the stores are constructed and the handler is decorated
\* with the arguments of configuration c.
Constructed(c) ==
    /\ cfg = c
    /\ now = MinOf(c.times)
    /\ calls = 0
    /\ pc = [p \in Clients |-> "idle"]
    /\ local = [p \in Clients |-> Idle]
    /\ buckets = <<>>
    /\ lbuckets = <<>>
    /\ logs = <<>>
    /\ counter = <<>>
    /\ hash = <<>>
    /\ counters = <<>>
    /\ lock = None
    /\ ret = [p \in Clients |-> NoReturn]
    /\ resp = [p \in Clients |-> NoResponse]
    /\ headers = [p \in Clients |-> NoHeaders]
    /\ raised = [p \in Clients |-> None]
    /\ hist = [k \in Keys |-> <<>>]

Init == \E c \in Configs : Constructed(c)

\* The clock moves on; in the configurations of ClockRegresses the next
\* reading may also be an earlier one.
Tick ==
    /\ \E t \in cfg.times :
           /\ t > now \/ (cfg \in ClockRegresses /\ t < now)
           /\ now' = t
    /\ UNCHANGED <<cfg, calls, pc, local, stores, ret, resp, headers, raised, hist>>

\* key = identifier_func() of a wrapper call by client p
Starts(p, key, algo) ==
    /\ cfg.algo = algo
    /\ p \in cfg.clients
    /\ key \in cfg.keys
    /\ pc[p] = "idle"
    /\ calls < cfg.maxcalls
    /\ calls' = calls + 1

\* The wrapper of client p returns: the store returned r, and t is the
\* clock reading that the store made for this request (in refill, in leak,
\* in consume).
Returns(p, key, t, r) ==
    /\ ret' = [ret EXCEPT ![p] = [key |-> key, out |-> r]]
    /\ resp' = [resp EXCEPT ![p] = wrapper_response(r[1], key)]
    /\ headers' = [headers EXCEPT ![p] = rate_headers(cfg, r)]
    /\ raised' = [raised EXCEPT ![p] = None]
    /\ hist' = [hist EXCEPT ![key] = Append(@, [t |-> t, ret |-> r])]
    /\ pc' = [pc EXCEPT ![p] = "idle"]
    /\ local' = [local EXCEPT ![p] = Idle]

Goes(p, key, to) ==
    /\ pc' = [pc EXCEPT ![p] = to]
    /\ local' = [local EXCEPT ![p] = [Idle EXCEPT !.key = key, !.t = now]]
    /\ UNCHANGED <<ret, resp, headers, raised, hist>>

\* `with self.lock:` of a consume whose whole body holds the lock: client p
\* takes the lock, reads the clock and the record of key and decides; out is
\* what the body makes of the store as it is now. The body's writes and its
\* return are the step that leaves the block.
Enters(p, key, out) ==
    /\ lock_free(lock)
    /\ lock' = p
    /\ pc' = [pc EXCEPT ![p] = "locked"]
    /\ local' = [local EXCEPT ![p] =
                    [key |-> key, t |-> now, write |-> <<out.store[key]>>, ret |-> out.ret]]
    /\ UNCHANGED <<ret, resp, headers, raised, hist>>

\* Client p is at the end of the `with self.lock:` block of store algo.
Leaves(p, algo) ==
    /\ cfg.algo = algo
    /\ pc[p] = "locked"
    /\ lock' = None
    /\ Returns(p, local[p].key, local[p].t, local[p].ret)

(* LocalTokenBucket.__call__: refill and consume take the lock one after   *)
(* the other, each for the whole of its body.                              *)
LocalTokenBucket_wrapper_refill(p, key) ==
    /\ Starts(p, key, "tb")
    /\ buckets' = LocalTokenBucket_refill(buckets, key, cfg.rate, token_capacity, now)
    /\ Goes(p, key, "consume")
    /\ UNCHANGED <<cfg, now, lbuckets, logs, counter, hash, counters, lock>>

LocalTokenBucket_wrapper_consume(p) ==
    /\ pc[p] = "consume"
    /\ LET out == LocalTokenBucket_consume(buckets, local[p].key, token_cost)
       IN  /\ buckets' = out.store
           /\ Returns(p, local[p].key, local[p].t, out.ret)
    /\ UNCHANGED <<cfg, now, calls, lbuckets, logs, counter, hash, counters, lock>>

(* LocalLeakyBucket.__call__ *)
LocalLeakyBucket_wrapper_leak(p, key) ==
    /\ Starts(p, key, "lb")
    /\ lbuckets' = LocalLeakyBucket_leak(lbuckets, key, cfg.rate, now)
    /\ Goes(p, key, "pour")
    /\ UNCHANGED <<cfg, now, buckets, logs, counter, hash, counters, lock>>

LocalLeakyBucket_wrapper_pour(p) ==
    /\ pc[p] = "pour"
    /\ LET out == LocalLeakyBucket_pour(lbuckets, local[p].key, token_capacity, token_cost)
       IN  /\ lbuckets' = out.store
           /\ Returns(p, local[p].key, local[p].t, out.ret)
    /\ UNCHANGED <<cfg, now, calls, buckets, logs, counter, hash, counters, lock>>

(* LocalSlidingLog.__call__ *)
LocalSlidingLog_consume_locked(p, key) ==
    /\ Starts(p, key, "sl")
    /\ Enters(p, key, LocalSlidingLog_consume(logs, key, cfg.rate, now))
    /\ UNCHANGED <<cfg, now, buckets, lbuckets, logs, counter, hash, counters>>

LocalSlidingLog_wrapper(p) ==
    /\ Leaves(p, "sl")
    /\ logs' = Put(logs, local[p].key, local[p].write[1])
    /\ UNCHANGED <<cfg, now, calls, buckets, lbuckets, counter, hash, counters>>

(* LocalFixedWindowCounter.__call__ *)
LocalFixedWindowCounter_consume_locked(p, key) ==
    /\ Starts(p, key, "fw")
    /\ Enters(p, key, LocalFixedWindowCounter_consume(counter, key, cfg.rate, now))
    /\ UNCHANGED <<cfg, now, buckets, lbuckets, logs, counter, hash, counters>>

LocalFixedWindowCounter_wrapper(p) ==
    /\ Leaves(p, "fw")
    /\ counter' = Put(counter, local[p].key, local[p].write[1])
    /\ UNCHANGED <<cfg, now, calls, buckets, lbuckets, logs, hash, counters>>

(* LocalSlidingWindowCounter.__call__ *)
LocalSlidingWindowCounter_consume_locked(p, key) ==
    /\ Starts(p, key, "swc")
    /\ Enters(p, key, LocalSlidingWindowCounter_consume(counters, key, cfg.rate, now))
    /\ UNCHANGED <<cfg, now, buckets, lbuckets, logs, counter, hash, counters>>

LocalSlidingWindowCounter_wrapper(p) ==
    /\ Leaves(p, "swc")
    /\ counters' = Put(counters, local[p].key, local[p].write[1])
    /\ UNCHANGED <<cfg, now, calls, buckets, lbuckets, logs, counter, hash>>

(* RedisFixedWindowCounter.__call__: consume reads the clock, then sends   *)
(* hexists, hget and hset to the server as separate commands.              *)
RedisFixedWindowCounter_consume_now(p, key) ==
    /\ Starts(p, key, "redis")
    /\ Goes(p, key, "hexists")
    /\ UNCHANGED <<cfg, now, stores>>

RedisFixedWindowCounter_consume_hexists(p) ==
    /\ pc[p] = "hexists"
    /\ IF local[p].key \in DOMAIN hash
       THEN /\ pc' = [pc EXCEPT ![p] = "hget"]
            /\ UNCHANGED local
       ELSE LET out == RedisFixedWindowCounter_create(floor_dt(local[p].t, D), cfg.rate)
            IN  /\ pc' = [pc EXCEPT ![p] = "hset"]
                /\ local' = [local EXCEPT ![p].write = out.write, ![p].ret = out.ret]
    /\ UNCHANGED <<cfg, now, calls, stores, ret, resp, headers, raised, hist>>

RedisFixedWindowCounter_consume_hget(p) ==
    /\ pc[p] = "hget"
    /\ LET val == hash[local[p].key]
           out == RedisFixedWindowCounter_decide(val, floor_dt(local[p].t, D), cfg.rate)
       IN  IF out.write = <<>>
           THEN Returns(p, local[p].key, local[p].t, out.ret)
           ELSE /\ pc' = [pc EXCEPT ![p] = "hset"]
                /\ local' = [local EXCEPT ![p].write = out.write, ![p].ret = out.ret]
                /\ UNCHANGED <<ret, resp, headers, raised, hist>>
    /\ UNCHANGED <<cfg, now, calls, stores>>

\* Mutant: the write is a check-and-set on the server, which decides again
\* on the value the field holds now.
RedisFixedWindowCounter_consume_hset_atomic(p) ==
    /\ pc[p] = "hset"
    /\ LET key == local[p].key
           latest_window == floor_dt(local[p].t, D)
           out == IF key \in DOMAIN hash
                  THEN RedisFixedWindowCounter_decide(hash[key], latest_window, cfg.rate)
                  ELSE RedisFixedWindowCounter_create(latest_window, cfg.rate)
       IN  /\ hash' = IF out.write = <<>> THEN hash ELSE Put(hash, key, out.write[1])
           /\ Returns(p, key, local[p].t, out.ret)
    /\ UNCHANGED <<cfg, now, calls, buckets, lbuckets, logs, counter, counters, lock>>

RedisFixedWindowCounter_consume_hset(p) ==
    /\ pc[p] = "hset"
    /\ hash' = Put(hash, local[p].key, local[p].write[1])
    /\ Returns(p, local[p].key, local[p].t, local[p].ret)
    /\ UNCHANGED <<cfg, now, calls, buckets, lbuckets, logs, counter, counters, lock>>

\* The server cannot be reached: the command client p is about to send
\* raises redis.exceptions.ConnectionError. Neither consume nor the wrapper
\* has a try block, so the exception leaves the wrapper: no Response is
\* made and the handler is not called.
RedisFixedWindowCounter_consume_ConnectionError(p) ==
    /\ pc[p] \in {"hexists", "hget", "hset"}
    /\ raised' = [raised EXCEPT ![p] = "ConnectionError"]
    /\ ret' = [ret EXCEPT ![p] = NoReturn]
    /\ resp' = [resp EXCEPT ![p] = NoResponse]
    /\ headers' = [headers EXCEPT ![p] = NoHeaders]
    /\ pc' = [pc EXCEPT ![p] = "idle"]
    /\ local' = [local EXCEPT ![p] = Idle]
    /\ UNCHANGED <<cfg, now, calls, stores, hist>>

Next ==
    \/ Tick
    \/ \E p \in Clients, key \in Keys : LocalTokenBucket_wrapper_refill(p, key)
    \/ \E p \in Clients : LocalTokenBucket_wrapper_consume(p)
    \/ \E p \in Clients, key \in Keys : LocalLeakyBucket_wrapper_leak(p, key)
    \/ \E p \in Clients : LocalLeakyBucket_wrapper_pour(p)
    \/ \E p \in Clients, key \in Keys : LocalSlidingLog_consume_locked(p, key)
    \/ \E p \in Clients : LocalSlidingLog_wrapper(p)
    \/ \E p \in Clients, key \in Keys : LocalFixedWindowCounter_consume_locked(p, key)
    \/ \E p \in Clients : LocalFixedWindowCounter_wrapper(p)
    \/ \E p \in Clients, key \in Keys : LocalSlidingWindowCounter_consume_locked(p, key)
    \/ \E p \in Clients : LocalSlidingWindowCounter_wrapper(p)
    \/ \E p \in Clients, key \in Keys : RedisFixedWindowCounter_consume_now(p, key)
    \/ \E p \in Clients : RedisFixedWindowCounter_consume_hexists(p)
    \/ \E p \in Clients : RedisFixedWindowCounter_consume_hget(p)
    \/ \E p \in Clients : RedisFixedWindowCounter_consume_hset(p)
    \/ \E p \in Clients : RedisFixedWindowCounter_consume_ConnectionError(p)

Spec == Init /\ [][Next]_vars

\* The same program, decorated with arguments that the dataclass RequestRate
\* and the __call__ of the stores take as they are.
InitUnchecked == \E c \in Configs \cup UncheckedConfigs : Constructed(c)

SpecUnchecked == InitUnchecked /\ [][Next]_vars

--------------------------------------------------------------------------
(* Reading the history *)

Allowed(e) == e.ret[1]

\* The requests of key k, as indices of hist[k]
Requests(k) == 1..Len(hist[k])

\* Requests of k decided at a time in (lo, hi], and those of them admitted
AttemptsIn(k, lo, hi) ==
    {i \in Requests(k) : lo < hist[k][i].t /\ hist[k][i].t <= hi}
AdmittedIn(k, lo, hi) ==
    {i \in AttemptsIn(k, lo, hi) : Allowed(hist[k][i])}

\* Requests of k decided in the aligned window that starts at w
AttemptsInWindow(k, w) ==
    {i \in Requests(k) : floor_dt(hist[k][i].t, D) = w}
AdmittedInWindow(k, w) ==
    {i \in AttemptsInWindow(k, w) : Allowed(hist[k][i])}

TimesOf(k) == {hist[k][i].t : i \in 1..Len(hist[k])}
WindowsOf(k) == {floor_dt(t, D) : t \in TimesOf(k)}

--------------------------------------------------------------------------
(* Claims *)

\* C1: every wrapper runs the handler exactly when the store's decision is
\* allow: an allowed request is answered 200 with the handler's body, a
\* denied one 429 with "Rate Limit for <key> exceeded." and no handler call.
C1_HandlerIffAllow ==
    \A p \in Clients :
        resp[p] # NoResponse =>
            LET allow == ret[p].out[1]
            IN  /\ (resp[p].handler_calls = 1) <=> allow
                /\ resp[p].handler_calls \in {0, 1}
                /\ allow => resp[p].status = 200 /\ resp[p].response = f
                /\ ~allow => /\ resp[p].status = 429
                             /\ resp[p].response = exceeded(ret[p].key)

C1_Witness ==
    \E p \in Clients :
        /\ ret[p].out # <<>>
        /\ ~ret[p].out[1]
        /\ resp[p].status = 429
        /\ \E i \in 1..Len(hist[ret[p].key]) : Allowed(hist[ret[p].key][i])

\* C2 as stated: when at least R requests of one key fall in one aligned
\* window of the fixed window counter, exactly R - 1 of them are admitted.
C2_AdmitsRMinusOne ==
    cfg.algo = "fw" =>
        \A k \in Keys : \A w \in WindowsOf(k) :
            Cardinality(AttemptsInWindow(k, w)) >= R =>
                Cardinality(AdmittedInWindow(k, w)) = R - 1

\* C2 amended: when at least R requests of one key fall in one aligned
\* window of the fixed window counter, exactly R of them are admitted (the
\* first R) and all the others are denied.
C2_AdmitsR ==
    cfg.algo = "fw" =>
        \A k \in Keys : \A w \in WindowsOf(k) :
            LET attempts == AttemptsInWindow(k, w)
                admitted == AdmittedInWindow(k, w)
            IN  /\ Cardinality(attempts) >= R => Cardinality(admitted) = R
                /\ \A i \in attempts :
                       Allowed(hist[k][i]) <=> Cardinality({j \in attempts : j < i}) < R

C2_Witness ==
    /\ cfg.algo = "fw"
    /\ R = 3
    /\ \E k \in Keys : \E w \in WindowsOf(k) :
           /\ Cardinality(AttemptsInWindow(k, w)) = R + 1
           /\ Cardinality(AdmittedInWindow(k, w)) = R

FiveStores == {"tb", "lb", "fw", "sl", "swc"}

\* C3 as stated: in every store, for every key, the admitted requests of any
\* interval of length D (here: the intervals (t - D, t] that end at a
\* request) are at most R, and R - 1 for the fixed window.
C3_AtMostRPerPeriod ==
    cfg.algo \in FiveStores =>
        \A k \in Keys : \A t \in TimesOf(k) :
            Cardinality(AdmittedIn(k, t - D, t)) <= (IF cfg.algo = "fw" THEN R - 1 ELSE R)

\* C3 amended: per key, for requests made one after the other with a
\* non-decreasing clock, each dated by the clock reading its store call
\* makes: the token bucket and the leaky bucket admit at most (C + R) / c
\* requests in any interval [t - D, t]; the fixed window and the sliding
\* window counter (D a whole number of seconds) admit at most R in any
\* aligned window [w, w + D), hence up to 2R in an interval of length D that
\* straddles a boundary; the sliding log admits at most R in any interval
\* (t - D, t].
C3_AdmissionBounds ==
    \A k \in Keys :
        /\ (cfg.algo \in {"tb", "lb"} /\ Cardinality(cfg.clients) = 1) =>
               \A t \in TimesOf(k) :
                   Cardinality(AdmittedIn(k, t - D - 1, t)) * cfg.cost <= cfg.capacity + R
        /\ cfg.algo \in {"fw", "swc"} =>
               \A w \in WindowsOf(k) : Cardinality(AdmittedInWindow(k, w)) <= R
        /\ cfg.algo = "sl" =>
               \A t \in TimesOf(k) : Cardinality(AdmittedIn(k, t - D, t)) <= R

\* The fixed window admits 2R requests within one interval of length D.
C3_Witness ==
    /\ cfg.algo = "fw"
    /\ R = 2
    /\ \E k \in Keys : \E t \in TimesOf(k) :
           /\ Cardinality(AdmittedIn(k, t - D, t)) = 2 * R
           /\ \A w \in WindowsOf(k) : Cardinality(AdmittedInWindow(k, w)) = R

\* Client p's call of LocalTokenBucket.consume is the step taken.
TokenBucketConsumes(p) == cfg.algo = "tb" /\ pc[p] = "consume" /\ pc'[p] = "idle"

\* C4: LocalTokenBucket.consume(key, c) on an existing record admits exactly
\* when the stored tokens are >= c; on admission c tokens are deducted and
\* the new count is returned; on rejection the record is left as it was and
\* the unchanged count is returned.
C4_TokenBucketConsume ==
    [][\A p \in Clients :
          TokenBucketConsumes(p) =>
              LET key == local[p].key
                  before == buckets[key]
                  after == buckets'[key]
                  out == ret'[p].out
              IN  /\ out[1] <=> (before.tokens >= token_cost)
                  /\ out[1] => /\ after.tokens = before.tokens - token_cost
                               /\ after.last_refill = before.last_refill
                               /\ out[2] = after.tokens
                  /\ ~out[1] => /\ after = before
                                /\ out[2] = before.tokens
                  /\ out[3] = before.last_refill]_vars

\* A consume was refused with a fraction of the cost left in the bucket.
C4_Witness ==
    /\ cfg.algo = "tb"
    /\ \E p \in Clients :
           /\ ret[p].out # <<>>
           /\ ~ret[p].out[1]
           /\ ret[p].out[2] > 0
           /\ ret[p].out[2] < token_cost
           /\ buckets[ret[p].key].tokens = ret[p].out[2]

\* Client p's call of LocalLeakyBucket.pour is the step taken.
LeakyBucketPours(p) == cfg.algo = "lb" /\ pc[p] = "pour" /\ pc'[p] = "idle"

\* C5: with capacity C and cost c > 0, every key's level of the leaky bucket
\* stays within 0..C under leak and pour; pour admits exactly when
\* level + c <= C, adds c to the level on admission and leaves the level
\* unchanged on rejection.
C5_LeakyBucketLevel ==
    /\ [](\A k \in DOMAIN lbuckets :
             0 <= lbuckets[k].tokens /\ lbuckets[k].tokens <= token_capacity)
    /\ [][\A p \in Clients :
             LeakyBucketPours(p) =>
                 LET key == local[p].key
                     before == lbuckets[key]
                     after == lbuckets'[key]
                     out == ret'[p].out
                 IN  /\ out[1] <=> (before.tokens + token_cost <= token_capacity)
                     /\ out[1] => after.tokens = before.tokens + token_cost
                     /\ ~out[1] => after = before]_vars

\* A pour was refused on a bucket that had leaked part of a cost.
C5_Witness ==
    /\ cfg.algo = "lb"
    /\ \E p \in Clients :
           /\ ret[p].out # <<>>
           /\ ~ret[p].out[1]
           /\ ret[p].out[2] < token_capacity
           /\ ret[p].out[2] + token_cost > token_capacity
           /\ lbuckets[ret[p].key].tokens = ret[p].out[2]

\* Requests of key k whose clock reading was t
RequestsAt(k, t) == {i \in Requests(k) : hist[k][i].t = t}

\* C6: LocalSlidingLog.consume at time now admits exactly when the requests
\* of that key, admitted or not and the current one included, with a
\* timestamp in (now - D, now] number at most R; so with R = 6 and D = 60 s,
\* 5 requests at 00:00:59.900 and 5 at 00:01:00.100 give 6 admissions and 4
\* rejections.
C6_SlidingLogAdmission ==
    cfg.algo = "sl" =>
        /\ \A k \in Keys : \A i \in Requests(k) :
               LET t == hist[k][i].t
                   recorded == {j \in 1..i : t - D < hist[k][j].t /\ hist[k][j].t <= t}
               IN  Allowed(hist[k][i]) <=> Cardinality(recorded) <= R
        /\ ( /\ cfg = SWLPrecision
             /\ Cardinality(RequestsAt("a", 599)) = 5
             /\ Cardinality(RequestsAt("a", 601)) = 5 )
           => /\ Cardinality({i \in Requests("a") : Allowed(hist["a"][i])}) = 6
              /\ Cardinality({i \in Requests("a") : ~Allowed(hist["a"][i])}) = 4

C6_Witness ==
    /\ cfg = SWLPrecision
    /\ Cardinality(RequestsAt("a", 599)) = 5
    /\ Cardinality(RequestsAt("a", 601)) = 5
    /\ Len(logs["a"]) = 10
    /\ ~Allowed(hist["a"][10])

\* floor(prior_sum * (1 - f) + current_sum) over the sub-windows newer than
\* t - period, with f = (t - floor(t, period)) / period
WeightedByPeriod(windows, t, rate) ==
    LET major == floor_dt(t, rate.period)
        kept == {k \in DOMAIN windows : k > t - rate.period}
        prior_sum == SumOver(windows, {k \in kept : k < major})
        current_sum == SumOver(windows, {k \in kept : k >= major})
    IN  ((prior_sum * (rate.period - (t - major))) \div rate.period) + current_sum

\* C7 as stated: every decision of LocalSlidingWindowCounter.consume on a
\* known key is weighted < R with weighted = floor(prior_sum * (1 - f) +
\* current_sum) and f the elapsed fraction of the current window of the
\* configured period D, whatever D is.
C7_FractionOfPeriod ==
    [][\A k \in DOMAIN counters :
          (cfg.algo = "swc" /\ hist'[k] # hist[k]) =>
              (Allowed(hist'[k][Len(hist'[k])])
                  <=> WeightedByPeriod(counters[k], hist'[k][Len(hist'[k])].t,
                                       cfg.rate) < R)]_vars

\* C8 as stated: with R = 6 and D = 60 s, after 6 requests of a fresh key at
\* 00:00:30, all admitted, the requests at 00:01:30 see the prior count of 6
\* weighted by 1 - 0.5: the first 3 of them are admitted and the 4th is not.
C8_ThreeMoreAdmitted ==
    (cfg = SWCSmoothing /\ Cardinality(RequestsAt("a", 300)) = 6) =>
        /\ \A i \in RequestsAt("a", 300) : Allowed(hist["a"][i])
        /\ \A i \in RequestsAt("a", 900) :
               Allowed(hist["a"][i])
                   <=> Cardinality({j \in RequestsAt("a", 900) : j < i}) < 3

\* What LocalFixedWindowCounter.consume returns, call after call, for one
\* key and the clock readings ts, from the store c
RECURSIVE FixedWindowReturns(_, _, _, _)
FixedWindowReturns(c, key, rate, ts) ==
    IF ts = <<>>
    THEN <<>>
    ELSE LET out == LocalFixedWindowCounter_consume(c, key, rate, Head(ts))
         IN  <<out.ret>> \o FixedWindowReturns(out.store, key, rate, Tail(ts))

\* C9 as stated: for one client calling in sequence,
\* RedisFixedWindowCounter.consume returns what
\* LocalFixedWindowCounter.consume returns for the same key, rate and
\* request times, also when the window starts have a fraction of a second.
C9_RedisMatchesLocal ==
    (cfg.algo = "redis" /\ Cardinality(cfg.clients) = 1) =>
        \A k \in Keys :
            [i \in Requests(k) |-> hist[k][i].ret]
                = FixedWindowReturns(<<>>, k, cfg.rate, [i \in Requests(k) |-> hist[k][i].t])

\* Client p's hset of RedisFixedWindowCounter.consume is the step taken.
RedisHsets(p) ==
    cfg.algo = "redis" /\ pc[p] = "hset" /\ pc'[p] = "idle" /\ raised'[p] = None

\* C10: in RedisFixedWindowCounter.consume the hset is a step of its own
\* that writes the value computed from what the call read earlier, and the
\* call is admitted, whatever the field holds by then; so when another call
\* has written the same count in between, the call is admitted and the
\* stored count does not grow.
C10_WriteAfterRead ==
    [][\A p \in Clients :
          RedisHsets(p) =>
              LET key == local[p].key
                  planned == local[p].write[1]
              IN  /\ hash'[key] = planned
                  /\ ret'[p].out[1]
                  /\ Len(hist'[key]) = Len(hist[key]) + 1
                  /\ Allowed(hist'[key][Len(hist'[key])])
                  /\ (key \in DOMAIN hash /\ hash[key] = planned)
                         => hash'[key].count = hash[key].count]_vars

\* Two clients read the same count, both were admitted with the same
\* remaining, and the window holds more admissions than R, the most a
\* single client gets (C2), with the stored count behind them.
C10_Witness ==
    /\ cfg.algo = "redis"
    /\ ret["c1"].out # <<>> /\ ret["c2"].out # <<>>
    /\ ret["c1"] = ret["c2"]
    /\ ret["c1"].out[1]
    /\ pc["c1"] = "idle" /\ pc["c2"] = "idle"
    /\ LET k == ret["c1"].key
           w == parse_active_window(hash[k])
       IN  /\ Cardinality(AdmittedInWindow(k, w)) > R
           /\ Cardinality(AdmittedInWindow(k, w)) > hash[k].count + 1

--------------------------------------------------------------------------
(* A run of one thread *)

\* The store calls of one wrapper call made with nothing in between, at the
\* clock reading t, on the store c of configuration config
request_of(config, c, key, t) ==
    LET rate == config.rate
        capacity == config.capacity * Unit(rate)
        cost == config.cost * Unit(rate)
    IN  IF config.algo = "tb"
        THEN LocalTokenBucket_consume(
                 LocalTokenBucket_refill(c, key, rate, capacity, t), key, cost)
        ELSE IF config.algo = "lb"
        THEN LocalLeakyBucket_pour(LocalLeakyBucket_leak(c, key, rate, t), key, capacity, cost)
        ELSE IF config.algo = "sl" THEN LocalSlidingLog_consume(c, key, rate, t)
        ELSE IF config.algo = "fw" THEN LocalFixedWindowCounter_consume(c, key, rate, t)
        ELSE IF config.algo = "swc" THEN LocalSlidingWindowCounter_consume(c, key, rate, t)
        ELSE LET latest_window == floor_dt(t, rate.period)
                 out == IF key \in DOMAIN c
                        THEN RedisFixedWindowCounter_decide(c[key], latest_window, rate)
                        ELSE RedisFixedWindowCounter_create(latest_window, rate)
             IN  [store |-> IF out.write = <<>> THEN c ELSE Put(c, key, out.write[1]),
                  ret |-> out.ret]

\* The wrapper calls for key at the clock readings ts, one after the other
\* from the store c: the store they leave and the tuples they return
RECURSIVE Sequential(_, _, _, _)
Sequential(config, c, key, ts) ==
    IF ts = <<>>
    THEN [store |-> c, rets |-> <<>>]
    ELSE LET out == request_of(config, c, key, Head(ts))
             rest == Sequential(config, out.store, key, Tail(ts))
         IN  [store |-> rest.store, rets |-> <<out.ret>> \o rest.rets]

\* The stores whose consume holds the lock for the whole of the decision
OneLockStores == {"fw", "sl", "swc"}

\* The store of the limiter under study
store_of(algo) ==
    IF algo = "tb" THEN buckets
    ELSE IF algo = "lb" THEN lbuckets
    ELSE IF algo = "sl" THEN logs
    ELSE IF algo = "fw" THEN counter
    ELSE IF algo = "swc" THEN counters
    ELSE hash

\* The record of key k in the dict d: <<>> when there is none
record(d, k) == IF k \in DOMAIN d THEN <<d[k]>> ELSE <<>>

\* The clock readings and the returned tuples of the requests of key k
ReadingsOf(k) == [i \in Requests(k) |-> hist[k][i].t]
ReturnsOf(k) == [i \in Requests(k) |-> hist[k][i].ret]

\* C11: for LocalFixedWindowCounter, LocalSlidingLog and
\* LocalSlidingWindowCounter, whatever the interleaving of the consume calls
\* of concurrent threads for one key, the tuples returned are those of the
\* same calls made one after the other (in the order they took the lock),
\* the record left once no call is inside the lock is the one that
\* sequential run leaves, and a window never admits more than in a
\* sequential run (R).
C11_Linearizable ==
    cfg.algo \in OneLockStores =>
        \A k \in Keys :
            LET run == Sequential(cfg, <<>>, k, ReadingsOf(k))
            IN  /\ ReturnsOf(k) = run.rets
                /\ lock = None => record(store_of(cfg.algo), k) = record(run.store, k)
                /\ cfg.algo = "fw" =>
                       \A w \in WindowsOf(k) : Cardinality(AdmittedInWindow(k, w)) <= R

\* Two threads at the same clock reading: c1 was given the last place of the
\* window while c2, now inside the lock, is being refused.
C11_Witness ==
    /\ cfg.algo = "fw"
    /\ lock = "c2"
    /\ pc["c2"] = "locked"
    /\ ret["c1"].out # <<>>
    /\ ret["c1"].key = local["c2"].key
    /\ ret["c1"].out[1]
    /\ ret["c1"].out[2] = 1
    /\ ~local["c2"].ret[1]
    /\ hist["a"][Len(hist["a"])].t = local["c2"].t

\* The key that the step of client p works on
KeyOf(p) == IF pc[p] = "idle" THEN local'[p].key ELSE local[p].key

\* C12: in every store, a call for one key leaves the record of every other
\* key as it was (refill/consume, leak/pour, consume and the Redis
\* commands), so the tuples a key is returned are those of its own requests
\* made alone, whatever the other key issues.
C12_KeysIndependent ==
    /\ [][\A k \in Keys :
             (record(store_of(cfg.algo), k)' # record(store_of(cfg.algo), k))
                 => \E p \in Clients : pc'[p] # pc[p] /\ KeyOf(p) = k]_vars
    /\ [](Cardinality(cfg.clients) = 1 =>
             \A k \in Keys : ReturnsOf(k) = Sequential(cfg, <<>>, k, ReadingsOf(k)).rets)

\* Key a has used up its bucket and is refused while key b, asking for the
\* first time after that, finds its bucket full.
C12_Witness ==
    /\ cfg.algo = "tb"
    /\ Len(hist["a"]) >= 2
    /\ ~Allowed(hist["a"][Len(hist["a"])])
    /\ Len(hist["b"]) = 1
    /\ Allowed(hist["b"][1])
    /\ hist["b"][1].t >= hist["a"][Len(hist["a"])].t
    /\ buckets["a"].tokens < token_cost
    /\ buckets["b"].tokens = token_capacity - token_cost

\* C13: LocalTokenBucket, one thread: when all the earlier requests of a key
\* were made at one clock reading t0, k of them admitted, the tokens held
\* right after the refill of a request made t later are
\* min(C, C - k * c + r * t); with C = 6, r = 0.1/s and c = 1, of seven
\* requests at once six are admitted and the seventh is refused, and the
\* request made 20 s later is admitted and leaves 1 token.
C13_TokenBucketRoundTrip ==
    (cfg.algo = "tb" /\ Cardinality(cfg.clients) = 1) =>
        /\ \A p \in Clients :
               (pc[p] = "consume" /\ Cardinality(TimesOf(local[p].key)) <= 1) =>
                   LET key == local[p].key
                       k == Cardinality({i \in Requests(key) : Allowed(hist[key][i])})
                       t == IF Len(hist[key]) = 0 THEN 0 ELSE local[p].t - hist[key][1].t
                   IN  t >= 0 =>
                       buckets[key].tokens =
                           Min(token_capacity, token_capacity - k * token_cost + R * t)
        /\ ( /\ cfg = TokenBucketRoundTrip
             /\ Cardinality(RequestsAt("a", 0)) = 7
             /\ Len(hist["a"]) = 8 )
           => /\ \A i \in 1..6 : Allowed(hist["a"][i])
              /\ ~Allowed(hist["a"][7])
              /\ Allowed(hist["a"][8])
              /\ hist["a"][8].ret[2] = 1 * Unit(cfg.rate)
              /\ headers["c1"].remaining[1] = 1 * headers["c1"].remaining[2]

C13_Witness ==
    /\ cfg = TokenBucketRoundTrip
    /\ Cardinality(RequestsAt("a", 0)) = 7
    /\ Len(hist["a"]) = 8
    /\ hist["a"][8].t = 20 * Second
    /\ ~Allowed(hist["a"][7])
    /\ Allowed(hist["a"][8])
    /\ buckets["a"].tokens = Unit(cfg.rate)

\* C14: a RequestRate with requests <= 0 or period <= 0, and a limiter with
\* a capacity <= 0, are rejected when they are constructed: no request is
\* ever taken by a limiter decorated with such arguments.
C14_BadConfigurationRejected ==
    (R <= 0 \/ D <= 0 \/ cfg.capacity <= 0) => \A k \in Keys : hist[k] = <<>>

\* C15: a request to a handler wrapped by RedisFixedWindowCounter during
\* which the server cannot be reached is resolved by the wrapper, by
\* admitting it (the handler runs, 200) or by answering 429 with the body
\* "Rate limiter unavailable."; the failure of the store never leaves the
\* wrapper as an exception.
C15_StoreFailureResolved ==
    \A p \in Clients :
        /\ raised[p] = None
        /\ (resp[p] # NoResponse /\ ret[p] = NoReturn) =>
               \/ resp[p].status = 200 /\ resp[p].handler_calls = 1
               \/ /\ resp[p].status = 429
                  /\ resp[p].response = <<"Rate limiter unavailable.">>

\* C16: in every store, the api-ratelimit-remaining header of an admitted
\* request is >= 0.
C16_RemainingNotNegative ==
    \A p \in Clients :
        (ret[p].out # <<>> /\ ret[p].out[1]) =>
            LET remaining == headers[p].remaining
            IN  remaining[2] > 0 /\ remaining[1] >= 0

\* A leaky bucket admitted the request that fills it: remaining is 0.
C16_Witness ==
    /\ cfg.algo = "lb"
    /\ ret["c1"].out # <<>>
    /\ ret["c1"].out[1]
    /\ ret["c1"].out[2] = token_capacity
    /\ headers["c1"].remaining[1] = 0

\* C17: LocalTokenBucket, where refill and consume take the lock one after
\* the other: however the refills and consumes of concurrent requests for
\* one key interleave, the stored tokens stay within 0..C, and a request is
\* admitted only if the bucket held at least c tokens when its consume ran.
C17_TokenBucketInterleaved ==
    /\ [](cfg.algo = "tb" =>
             \A k \in DOMAIN buckets :
                 0 <= buckets[k].tokens /\ buckets[k].tokens <= token_capacity)
    /\ [][\A p \in Clients :
             (TokenBucketConsumes(p) /\ ret'[p].out[1]) =>
                 /\ buckets[local[p].key].tokens >= token_cost
                 /\ buckets'[local[p].key].tokens >= 0]_vars

\* Two requests for one key are both past their refill, and the bucket
\* holds the cost of one of them only.
C17_Witness ==
    /\ cfg.algo = "tb"
    /\ pc["c1"] = "consume"
    /\ pc["c2"] = "consume"
    /\ local["c1"].key = local["c2"].key
    /\ buckets[local["c1"].key].tokens >= token_cost
    /\ buckets[local["c1"].key].tokens < 2 * token_cost

\* Client p's call of LocalFixedWindowCounter.consume returns in this step.
FixedWindowConsumes(p) == cfg.algo = "fw" /\ pc[p] = "locked" /\ pc'[p] = "idle"

\* C18: LocalFixedWindowCounter.consume, with latest = floor(now, D): with
\* no record, or with a stored window < latest, it stores (0, latest) and
\* returns (true, R, latest + D); else with count + 1 < R it adds 1 to the
\* count, keeps the window and returns (true, R - count - 1, window + D),
\* count being the value before; else it returns (false, 0, window + D) and
\* leaves the record as it is. So 0 <= count <= R at all times.
C18_FixedWindowCases ==
    /\ [][\A p \in Clients :
             FixedWindowConsumes(p) =>
                 LET key == local[p].key
                     latest == floor_dt(local[p].t, D)
                     before == record(counter, key)
                     after == counter'[key]
                     out == ret'[p].out
                 IN  IF before = <<>>
                     THEN /\ after = [count |-> 0, window |-> latest]
                          /\ out = <<TRUE, R, latest + D>>
                     ELSE IF before[1].window < latest
                     THEN /\ after = [count |-> 0, window |-> latest]
                          /\ out = <<TRUE, R, latest + D>>
                     ELSE IF before[1].count + 1 < R
                     THEN /\ after = [count |-> before[1].count + 1,
                                      window |-> before[1].window]
                          /\ out = <<TRUE, R - before[1].count - 1, before[1].window + D>>
                     ELSE /\ after = before[1]
                          /\ out = <<FALSE, 0, before[1].window + D>>]_vars
    /\ [](cfg.algo = "fw" =>
             \A k \in DOMAIN counter : 0 <= counter[k].count /\ counter[k].count <= R)

\* Each of the four cases has been taken for one key: the window of the
\* first request has gone stale and the new one is full.
C18_Witness ==
    /\ cfg.algo = "fw"
    /\ R = 3
    /\ ret["c1"].out # <<>>
    /\ ret["c1"].out = <<FALSE, 0, counter["a"].window + D>>
    /\ counter["a"].count = R - 1
    /\ counter["a"].window > hist["a"][1].t
    /\ \E i \in Requests("a") : hist["a"][i].ret[1] /\ hist["a"][i].ret[2] = 1

\* C19: after every LocalSlidingLog.consume call at time now, the log stored
\* for the key holds only timestamps > now - D.
C19_StoredLogPruned ==
    cfg.algo = "sl" =>
        \A k \in DOMAIN logs :
            (Len(hist[k]) > 0 /\ lock = None) =>
                \A i \in 1..Len(logs[k]) : logs[k][i] > hist[k][Len(hist[k])].t - D

\* Client p's call of LocalTokenBucket.refill, of LocalLeakyBucket.leak, is
\* the step taken.
TokenBucketRefills(p) == cfg.algo = "tb" /\ pc[p] = "idle" /\ pc'[p] = "consume"
LeakyBucketLeaks(p) == cfg.algo = "lb" /\ pc[p] = "idle" /\ pc'[p] = "pour"

\* C20: a refill (a leak) that reads a clock earlier than the stored
\* last_refill (last_leak) leaves the record of the key as it is; so,
\* whatever the clock readings, last_refill and last_leak never decrease, a
\* refill never takes tokens away and a leak never raises the level.
C20_ClockRegressionSkipped ==
    [][/\ \A p \in Clients :
              (TokenBucketRefills(p) /\ local'[p].key \in DOMAIN buckets) =>
                  LET before == buckets[local'[p].key]
                      after == buckets'[local'[p].key]
                  IN  /\ now < before.last_refill => after = before
                      /\ after.tokens >= before.tokens
       /\ \A p \in Clients :
              (LeakyBucketLeaks(p) /\ local'[p].key \in DOMAIN lbuckets) =>
                  LET before == lbuckets[local'[p].key]
                      after == lbuckets'[local'[p].key]
                  IN  /\ now < before.last_leak => after = before
                      /\ after.tokens <= before.tokens
       /\ \A k \in DOMAIN buckets : buckets'[k].last_refill >= buckets[k].last_refill
       /\ \A k \in DOMAIN lbuckets : lbuckets'[k].last_leak >= lbuckets[k].last_leak]_vars

\* A refill has just read a clock earlier than last_refill, on a bucket
\* that is not full.
C20_Witness ==
    /\ cfg.algo = "tb"
    /\ pc["c1"] = "consume"
    /\ local["c1"].t < buckets[local["c1"].key].last_refill
    /\ buckets[local["c1"].key].tokens < token_capacity

\* The requests of key k made before request i with a clock reading in
\* (t - D, t], t being the reading of request i
EarlierInPeriod(k, i) ==
    {j \in 1..(i - 1) : hist[k][i].t - D < hist[k][j].t /\ hist[k][j].t <= hist[k][i].t}

\* C21: LocalSlidingWindowCounter, clock not going back: the weighted count
\* computed at a request (R minus the remaining it returns; every request
\* of a key after its first computes one) is at most the number of earlier
\* requests of that key with a timestamp in (now - D, now].
C21_WeightedAtMostTrueCount ==
    cfg.algo = "swc" =>
        \A k \in Keys : \A i \in Requests(k) :
            i > 1 => R - hist[k][i].ret[2] <= Cardinality(EarlierInPeriod(k, i))

\* One request found its weighted count equal to the true count, and a
\* later one found it below the true count, both with earlier requests in
\* the period.
C21_Witness ==
    /\ cfg.algo = "swc"
    /\ \E i, j \in Requests("a") :
           /\ 1 < i /\ i < j
           /\ R - hist["a"][i].ret[2] = Cardinality(EarlierInPeriod("a", i))
           /\ R - hist["a"][i].ret[2] > 0
           /\ R - hist["a"][j].ret[2] < Cardinality(EarlierInPeriod("a", j))
           /\ R - hist["a"][j].ret[2] > 0

\* Whole numbers of periods by which a schedule is moved
Shifts == {-1, 1, 2, 3}

\* The returned tuple out, its reset moved by d
reset_moved(out, d) == <<out[1], out[2], out[3] + d>>

\* C22: LocalFixedWindowCounter: the window of a request is floor_dt of its
\* own clock reading and D, whatever was called before (the reset returned
\* is that window + D), and moving every request time of a schedule by the
\* same whole number of periods gives the same allow decisions and remaining
\* values, each reset moved by as much.
C22_ShiftByPeriods ==
    cfg.algo = "fw" =>
        \A k \in Keys :
            /\ \A i \in Requests(k) :
                   hist[k][i].ret[3] = floor_dt(hist[k][i].t, D) + D
            /\ \A m \in Shifts :
                   Sequential(cfg, <<>>, k, [i \in Requests(k) |-> hist[k][i].t + m * D]).rets
                       = [i \in Requests(k) |-> reset_moved(hist[k][i].ret, m * D)]

\* A schedule over three windows with a refusal in the first one.
C22_Witness ==
    /\ cfg.algo = "fw"
    /\ R = 2
    /\ Cardinality(WindowsOf("a")) = 3
    /\ Len(hist["a"]) = 5
    /\ ~Allowed(hist["a"][3])
    /\ hist["a"][5].ret = <<TRUE, R, floor_dt(now, D) + D>>

\* Client p's call of LocalSlidingLog.consume, of
\* LocalSlidingWindowCounter.consume, returns in this step.
SlidingLogConsumes(p) == cfg.algo = "sl" /\ pc[p] = "locked" /\ pc'[p] = "idle"
SlidingWindowConsumes(p) == cfg.algo = "swc" /\ pc[p] = "locked" /\ pc'[p] = "idle"

\* C23 as stated: in LocalSlidingLog and in LocalSlidingWindowCounter alike,
\* a request that finds more than R attempts of its key within the trailing
\* period D is refused, and one that finds fewer than R is admitted.
C23_NeverAdmittedWhileBusy ==
    cfg.algo \in {"sl", "swc"} =>
        \A k \in Keys : \A i \in Requests(k) :
            /\ Cardinality(EarlierInPeriod(k, i)) > R => ~Allowed(hist[k][i])
            /\ Cardinality(EarlierInPeriod(k, i)) < R => Allowed(hist[k][i])

\* C23 amended: in LocalSlidingLog and in LocalSlidingWindowCounter a
\* refused request is recorded like an admitted one (its timestamp goes to
\* the stored log, the count of its sub-window grows by 1). In
\* LocalSlidingLog a request is refused whenever more than R attempts of its
\* key, itself included, lie within the trailing period D, also when none of
\* them was admitted; in both stores a request is admitted when fewer than
\* R earlier attempts lie within the trailing D.
C23_RejectedAreRecorded ==
    /\ [][/\ \A p \in Clients :
                 SlidingLogConsumes(p) =>
                     LET key == local[p].key
                         before == IF key \in DOMAIN logs THEN logs[key] ELSE <<>>
                     IN  logs'[key] = Append(before, local[p].t)
          /\ \A p \in Clients :
                 SlidingWindowConsumes(p) =>
                     LET key == local[p].key
                         frame == floor_dt(local[p].t, Second)
                         before == IF key \in DOMAIN counters /\ frame \in DOMAIN counters[key]
                                   THEN counters[key][frame] ELSE 0
                     IN  counters'[key][frame] = before + 1]_vars
    /\ [](cfg.algo = "sl" =>
             \A k \in Keys : \A i \in Requests(k) :
                 Cardinality(EarlierInPeriod(k, i)) + 1 > R => ~Allowed(hist[k][i]))
    /\ [](cfg.algo \in {"sl", "swc"} =>
             \A k \in Keys : \A i \in Requests(k) :
                 Cardinality(EarlierInPeriod(k, i)) < R => Allowed(hist[k][i]))

\* The sliding log has refused a key that asks every second and had no
\* admission within the last D, and has admitted it again after a pause.
C23_Witness ==
    /\ cfg.algo = "sl"
    /\ R = 1
    /\ Len(hist["a"]) = 4
    /\ Len(logs["a"]) = 4
    /\ ~Allowed(hist["a"][2])
    /\ ~Allowed(hist["a"][3])
    /\ AdmittedIn("a", hist["a"][3].t - D, hist["a"][3].t) = {}
    /\ Allowed(hist["a"][4])

==========================================================================
